---- MODULE Spec2Model ----
(***************************************************************************)
(* The POST /convert endpoint of index.js: multer stores the upload under  *)
(* uploads/, the handler derives an output path, dispatches to one of the  *)
(* three converters by target format, sets the response headers, tries to  *)
(* open the output for streaming and, on any throw, unlinks the input and  *)
(* answers 500.  Each request is one asynchronous task; the steps between   *)
(* two awaits are atomic, the awaited work (upload, converter, unlink)     *)
(* interleaves freely with the other requests.                             *)
(***************************************************************************)
EXTENDS Integers, Sequences, FiniteSets, TLC

\* ---- bounds ------------------------------------------------------------
NumRequests == 2
MaxTick == 1

Requests == 1..NumRequests
Ticks == 0..MaxTick

\* ---- inputs a client can send -------------------------------------------
OriginalNames == {"sample.mp3", "converted.wav"}
UnsupportedFormats == {"xyz"}

\* ---- format tables (handler, lines 86-103) ------------------------------
supportedAudioFormats == <<"mp3", "wav", "ogg", "m4a">>
supportedImageFormats == <<"jpg", "jpeg", "png", "webp">>
supportedDocFormats == <<"pdf", "docx", "txt">>

contentTypes ==
    ("mp3" :> "audio/mpeg") @@ ("wav" :> "audio/wav") @@
    ("ogg" :> "audio/ogg") @@ ("m4a" :> "audio/mp4") @@
    ("pdf" :> "application/pdf") @@
    ("docx" :> "application/vnd.openxmlformats-officedocument.wordprocessingml.document") @@
    ("txt" :> "text/plain") @@
    ("jpg" :> "image/jpeg") @@ ("jpeg" :> "image/jpeg") @@
    ("png" :> "image/png") @@ ("webp" :> "image/webp")

\* Array.prototype.includes
Includes(arr, x) == \E i \in DOMAIN arr : arr[i] = x

Elements(arr) == {arr[i] : i \in DOMAIN arr}

SupportedFormats ==
    Elements(supportedAudioFormats) \cup Elements(supportedDocFormats)
        \cup Elements(supportedImageFormats)

\* The target formats the modelled clients ask for: one of each list, both
\* spellings of jpeg, and one that no list includes.
RequestedFormats == {"wav", "pdf", "jpg", "jpeg"} \cup UnsupportedFormats

\* Converter without the final else of lines 112-114: a format that no list
\* includes reaches the last converter.
Converter_WithoutElse(targetFormat) ==
    IF Includes(supportedAudioFormats, targetFormat) THEN "convertAudio"
    ELSE IF Includes(supportedDocFormats, targetFormat) THEN "convertDocument"
    ELSE "convertImage"

\* Converter with the tests of lines 108 and 110 exchanged: document
\* formats reach convertImage and image formats reach convertDocument.
Converter_ListsExchanged(targetFormat) ==
    IF Includes(supportedAudioFormats, targetFormat) THEN "convertAudio"
    ELSE IF Includes(supportedImageFormats, targetFormat) THEN "convertDocument"
    ELSE IF Includes(supportedDocFormats, targetFormat) THEN "convertImage"
    ELSE "none"

\* The if / else-if chain of lines 106-114: the converter a target format
\* is dispatched to, "none" when the chain falls through to the throw.
Converter(targetFormat) ==
    IF Includes(supportedAudioFormats, targetFormat) THEN "convertAudio"
    ELSE IF Includes(supportedDocFormats, targetFormat) THEN "convertDocument"
    ELSE IF Includes(supportedImageFormats, targetFormat) THEN "convertImage"
    ELSE "none"

\* ImageEncoder with the test of line 59 reduced to format === 'jpg'.
ImageEncoder_JpgOnly(format) ==
    IF format = "jpg" THEN "jpeg"
    ELSE IF format = "png" THEN "png"
    ELSE IF format = "webp" THEN "webp"
    ELSE "none"

\* The branch convertImage takes (lines 59-65); "none" writes no file.
ImageEncoder(format) ==
    IF format = "jpg" \/ format = "jpeg" THEN "jpeg"
    ELSE IF format = "png" THEN "png"
    ELSE IF format = "webp" THEN "webp"
    ELSE "none"

\* What a converter that succeeds encodes its output with.
OutputEncoding(fn, format) ==
    IF fn = "convertAudio" THEN "libmp3lame/" \o format
    ELSE IF fn = "convertDocument" THEN "libreoffice/." \o format
    ELSE "sharp/" \o ImageEncoder(format)

\* The message of the error a failing converter rejects with.
ConverterFailure(fn) ==
    IF fn = "convertAudio" THEN "ffmpeg exited with code 1"
    ELSE IF fn = "convertDocument" THEN "Could not convert document"
    ELSE "Input file contains unsupported image format"

\* ---- names and paths ----------------------------------------------------
\* multer's filename callback (line 26): Date.now() + '-' + originalname
UploadFileName(tick, originalname) == ToString(tick) \o "-" \o originalname

\* line 79: `${Date.now()}-converted.${targetFormat}`
OutputFileName(tick, targetFormat) ==
    ToString(tick) \o "-converted." \o targetFormat

\* line 113
UnsupportedMessage(targetFormat) ==
    "Conversion to " \o targetFormat \o " is not supported"

\* The members of the default export of 'fs/promises' (line 6) that the
\* program uses or tries to use; createReadStream is not one of them.
FsPromisesApi == {"mkdir", "readFile", "writeFile", "unlink"}

\* ---- state --------------------------------------------------------------
VARIABLES
    now,            \* the latest value Date.now() returned
    disk,           \* the uploads directory: file name -> contents
    pc,             \* where each request's task stands
    file,           \* req.file
    targetFormat,   \* req.body.targetFormat
    outputFileName, \* line 79
    error,          \* the error caught at line 133
    status,         \* res.statusCode once a response is sent, 0 before
    body,           \* the JSON body sent
    headers,        \* res.setHeader / res.json
    calls,          \* converter invocations of the request, in order
    outcome,        \* how the awaited converter settled: resolved, rejected
    unlinks,        \* fs.unlink attempts of the request, in order
    connected       \* the client still holds the connection

vars == <<now, disk, pc, file, targetFormat, outputFileName, error, status,
          body, headers, calls, outcome, unlinks, connected>>

NoFile == [originalname |-> "", path |-> ""]
NoError == [name |-> "", message |-> ""]
NoBody == [error |-> ""]
NoHeaders == [ContentType |-> "", ContentDisposition |-> ""]

Init ==
    /\ now = 0
    /\ disk = <<>>
    /\ pc = [r \in Requests |-> "idle"]
    /\ file = [r \in Requests |-> NoFile]
    /\ targetFormat = [r \in Requests |-> ""]
    /\ outputFileName = [r \in Requests |-> ""]
    /\ error = [r \in Requests |-> NoError]
    /\ status = [r \in Requests |-> 0]
    /\ body = [r \in Requests |-> NoBody]
    /\ headers = [r \in Requests |-> NoHeaders]
    /\ calls = [r \in Requests |-> <<>>]
    /\ outcome = [r \in Requests |-> ""]
    /\ unlinks = [r \in Requests |-> <<>>]
    /\ connected = [r \in Requests |-> TRUE]

\* ---- the file system ----------------------------------------------------
Exists(d, path) == path \in DOMAIN d

WriteFile(d, path, contents) ==
    [p \in DOMAIN d \cup {path} |-> IF p = path THEN contents ELSE d[p]]

RemoveFile(d, path) == [p \in DOMAIN d \ {path} |-> d[p]]

\* ---- the clock ----------------------------------------------------------
\* Date.now(): a value not below the one returned last.
DateNow == now..MaxTick

\* ---- upload.single('file') ----------------------------------------------
\* Requests are numbered in the order their bodies are received.
NextToArrive(r) ==
    /\ pc[r] = "idle"
    /\ \A q \in Requests : q < r => pc[q] # "idle"

\* A multipart body with a file field: multer stores it under the name
\* computed by the filename callback and sets req.file.
Upload(r) ==
    /\ NextToArrive(r)
    /\ \E originalname \in OriginalNames, tf \in RequestedFormats, t \in DateNow :
         LET path == UploadFileName(t, originalname) IN
           /\ now' = t
           /\ disk' = WriteFile(disk, path,
                        [owner |-> r, source |-> r, encoding |-> "upload"])
           /\ file' = [file EXCEPT ![r] =
                        [originalname |-> originalname, path |-> path]]
           /\ targetFormat' = [targetFormat EXCEPT ![r] = tf]
    /\ pc' = [pc EXCEPT ![r] = "handler"]
    /\ UNCHANGED <<outputFileName, error, status, body, headers, calls, outcome,
                   unlinks, connected>>

\* A multipart body without a file field: nothing is stored, req.file
\* stays undefined.
UploadNothing(r) ==
    /\ NextToArrive(r)
    /\ \E tf \in RequestedFormats :
         targetFormat' = [targetFormat EXCEPT ![r] = tf]
    /\ pc' = [pc EXCEPT ![r] = "handler"]
    /\ UNCHANGED <<now, disk, file, outputFileName, error, status, body,
                   headers, calls, outcome, unlinks, connected>>

\* NoFileUploaded without the test of line 74: reading file.path throws,
\* the catch block answers.
NoFileUploaded_Unchecked(r) ==
    /\ pc[r] = "handler"
    /\ file[r] = NoFile
    /\ error' = [error EXCEPT ![r] =
                   [name |-> "TypeError",
                    message |-> "Cannot read properties of undefined (reading 'path')"]]
    /\ pc' = [pc EXCEPT ![r] = "catch"]
    /\ UNCHANGED <<now, disk, file, targetFormat, outputFileName, status,
                   body, headers, calls, outcome, unlinks, connected>>

\* NoFileUploaded without the return of line 75: the 400 is sent and the
\* handler goes on to read file.path, which throws into the catch block.
NoFileUploaded_NoReturn(r) ==
    /\ pc[r] = "handler"
    /\ file[r] = NoFile
    /\ status' = [status EXCEPT ![r] = 400]
    /\ body' = [body EXCEPT ![r] = [error |-> "No file uploaded"]]
    /\ headers' = [headers EXCEPT ![r].ContentType =
                     "application/json; charset=utf-8"]
    /\ error' = [error EXCEPT ![r] =
                   [name |-> "TypeError",
                    message |-> "Cannot read properties of undefined (reading 'path')"]]
    /\ pc' = [pc EXCEPT ![r] = "catch"]
    /\ UNCHANGED <<now, disk, file, targetFormat, outputFileName, calls,
                   outcome, unlinks, connected>>

\* ---- the handler, up to its first await (lines 70-114) -------------------
\* lines 74-76
NoFileUploaded(r) ==
    /\ pc[r] = "handler"
    /\ file[r] = NoFile
    /\ status' = [status EXCEPT ![r] = 400]
    /\ body' = [body EXCEPT ![r] = [error |-> "No file uploaded"]]
    /\ headers' = [headers EXCEPT ![r].ContentType =
                     "application/json; charset=utf-8"]
    /\ pc' = [pc EXCEPT ![r] = "done"]
    /\ UNCHANGED <<now, disk, file, targetFormat, outputFileName, error,
                   calls, outcome, unlinks, connected>>

\* lines 78-111: the output name is derived and the converter is called
StartConversion(r) ==
    /\ pc[r] = "handler"
    /\ file[r] # NoFile
    /\ Converter(targetFormat[r]) # "none"
    /\ \E t \in DateNow :
         LET name == OutputFileName(t, targetFormat[r]) IN
         /\ now' = t
         /\ outputFileName' = [outputFileName EXCEPT ![r] = name]
         /\ calls' = [calls EXCEPT ![r] = Append(@,
                        [fn |-> Converter(targetFormat[r]),
                         inputPath |-> file[r].path,
                         outputPath |-> name,
                         format |-> targetFormat[r]])]
    /\ pc' = [pc EXCEPT ![r] = "converting"]
    /\ UNCHANGED <<disk, file, targetFormat, error, status, body,
                   headers, outcome, unlinks, connected>>

\* lines 78-80 and 112-114: no list includes the format, the handler throws
UnsupportedFormat(r) ==
    /\ pc[r] = "handler"
    /\ file[r] # NoFile
    /\ Converter(targetFormat[r]) = "none"
    /\ \E t \in DateNow :
         /\ now' = t
         /\ outputFileName' = [outputFileName EXCEPT ![r] =
                                 OutputFileName(t, targetFormat[r])]
    /\ error' = [error EXCEPT ![r] =
                   [name |-> "Error",
                    message |-> UnsupportedMessage(targetFormat[r])]]
    /\ pc' = [pc EXCEPT ![r] = "catch"]
    /\ UNCHANGED <<disk, file, targetFormat, status, body, headers,
                   calls, outcome, unlinks, connected>>

\* ---- the awaited converter (lines 36-66) --------------------------------
InputPath(r) == file[r].path

\* The converter reads the input and writes the output; it resolves.
\* convertImage writes nothing when no branch of lines 59-65 matches.
ConverterSucceeds(r) ==
    /\ pc[r] = "converting"
    /\ Exists(disk, InputPath(r))
    /\ LET fn == Converter(targetFormat[r])
           written == [owner |-> r,
                       source |-> disk[InputPath(r)].source,
                       encoding |-> OutputEncoding(fn, targetFormat[r])]
       IN disk' = IF fn = "convertImage" /\ ImageEncoder(targetFormat[r]) = "none"
                  THEN disk
                  ELSE WriteFile(disk, outputFileName[r], written)
    /\ outcome' = [outcome EXCEPT ![r] = "resolved"]
    /\ pc' = [pc EXCEPT ![r] = "respond"]
    /\ UNCHANGED <<now, file, targetFormat, outputFileName, error, status,
                   body, headers, calls, unlinks, connected>>

\* ConverterFails with a retry: after a rejection the handler derives a new
\* output name and calls the converter again.
ConverterFails_Retried(r) ==
    /\ pc[r] = "converting"
    /\ \E partial \in BOOLEAN :
         disk' = IF partial
                 THEN WriteFile(disk, outputFileName[r],
                        [owner |-> r, source |-> r, encoding |-> "partial"])
                 ELSE disk
    /\ outcome' = [outcome EXCEPT ![r] = "rejected"]
    /\ pc' = [pc EXCEPT ![r] = "handler"]
    /\ UNCHANGED <<now, file, targetFormat, outputFileName, error, status,
                   body, headers, calls, unlinks, connected>>

\* The converter rejects (line 43, or a throw of lines 50-53 or 60-64),
\* having written part of the output or none of it; control enters the
\* catch block.
ConverterFails(r) ==
    /\ pc[r] = "converting"
    /\ \E partial \in BOOLEAN :
         disk' = IF partial
                 THEN WriteFile(disk, outputFileName[r],
                        [owner |-> r, source |-> r, encoding |-> "partial"])
                 ELSE disk
    /\ error' = [error EXCEPT ![r] =
                   [name |-> "Error",
                    message |-> ConverterFailure(Converter(targetFormat[r]))]]
    /\ outcome' = [outcome EXCEPT ![r] = "rejected"]
    /\ pc' = [pc EXCEPT ![r] = "catch"]
    /\ UNCHANGED <<now, file, targetFormat, outputFileName, status, body,
                   headers, calls, unlinks, connected>>

\* ---- headers and stream set-up (lines 116-121) ---------------------------
\* The two headers are set, then fs.createReadStream is called: fs is the
\* default export of 'fs/promises', the call throws a TypeError that the
\* catch of line 133 receives.
SendFile(r) ==
    /\ pc[r] = "respond"
    /\ headers' = [headers EXCEPT ![r] =
                     [ContentType |-> contentTypes[targetFormat[r]],
                      ContentDisposition |->
                          "attachment; filename=" \o outputFileName[r]]]
    /\ IF "createReadStream" \in FsPromisesApi
       THEN /\ pc' = [pc EXCEPT ![r] = "streaming"]
            /\ error' = error
       ELSE /\ pc' = [pc EXCEPT ![r] = "catch"]
            /\ error' = [error EXCEPT ![r] =
                           [name |-> "TypeError",
                            message |-> "fs.createReadStream is not a function"]]
    /\ UNCHANGED <<now, disk, file, targetFormat, outputFileName, status,
                   body, calls, outcome, unlinks, connected>>

\* CatchUnlink without lines 135-141: the catch block only answers.
CatchUnlink_Skipped(r) ==
    /\ pc[r] = "catch"
    /\ pc' = [pc EXCEPT ![r] = "respond500"]
    /\ UNCHANGED <<now, disk, file, targetFormat, outputFileName, error,
                   status, body, headers, calls, outcome, unlinks, connected>>

\* CatchUnlink without the inner try of lines 136-140: a rejected unlink
\* leaves the handler's promise rejected and line 143 is never reached.
CatchUnlink_Unguarded(r) ==
    /\ pc[r] = "catch"
    /\ IF file[r] # NoFile
       THEN IF Exists(disk, file[r].path)
            THEN /\ disk' = RemoveFile(disk, file[r].path)
                 /\ unlinks' = [unlinks EXCEPT ![r] =
                                  Append(@, [path |-> file[r].path, ok |-> TRUE])]
                 /\ pc' = [pc EXCEPT ![r] = "respond500"]
            ELSE /\ disk' = disk
                 /\ unlinks' = [unlinks EXCEPT ![r] =
                                  Append(@, [path |-> file[r].path, ok |-> FALSE])]
                 /\ pc' = [pc EXCEPT ![r] = "unhandled"]
       ELSE /\ UNCHANGED <<disk, unlinks>>
            /\ pc' = [pc EXCEPT ![r] = "respond500"]
    /\ UNCHANGED <<now, file, targetFormat, outputFileName, error, status,
                   body, headers, calls, outcome, connected>>

\* ---- the catch block (lines 133-147) -------------------------------------
\* lines 135-141: the awaited unlink of req.file.path; ENOENT is caught and
\* logged.
CatchUnlink(r) ==
    /\ pc[r] = "catch"
    /\ IF file[r] # NoFile
       THEN IF Exists(disk, file[r].path)
            THEN /\ disk' = RemoveFile(disk, file[r].path)
                 /\ unlinks' = [unlinks EXCEPT ![r] =
                                  Append(@, [path |-> file[r].path, ok |-> TRUE])]
            ELSE /\ disk' = disk
                 /\ unlinks' = [unlinks EXCEPT ![r] =
                                  Append(@, [path |-> file[r].path, ok |-> FALSE])]
       ELSE UNCHANGED <<disk, unlinks>>
    /\ pc' = [pc EXCEPT ![r] = "respond500"]
    /\ UNCHANGED <<now, file, targetFormat, outputFileName, error, status,
                   body, headers, calls, outcome, connected>>

\* line 144: error.message || 'Conversion failed'
ErrorField(message) == IF message = "" THEN "Conversion failed" ELSE message

\* line 145: Error.prototype.toString
ErrorToString(e) == e.name \o ": " \o e.message

\* lines 143-146
Respond500(r) ==
    /\ pc[r] = "respond500"
    /\ status' = [status EXCEPT ![r] = 500]
    /\ body' = [body EXCEPT ![r] =
                  [error |-> ErrorField(error[r].message),
                   details |-> ErrorToString(error[r])]]
    /\ headers' = [headers EXCEPT ![r].ContentType =
                     "application/json; charset=utf-8"]
    /\ pc' = [pc EXCEPT ![r] = "done"]
    /\ UNCHANGED <<now, disk, file, targetFormat, outputFileName, error,
                   calls, outcome, unlinks, connected>>

\* ---- the client ----------------------------------------------------------
\* The client drops the connection while its converted file is due to be
\* delivered; the handler registers no 'close' or 'error' listener, so
\* nothing else changes.
ClientDisconnect(r) ==
    /\ pc[r] \in {"respond", "streaming"}
    /\ connected[r]
    /\ connected' = [connected EXCEPT ![r] = FALSE]
    /\ UNCHANGED <<now, disk, pc, file, targetFormat, outputFileName, error,
                   status, body, headers, calls, outcome, unlinks>>

\* ---- specification -------------------------------------------------------
Next ==
    \/ \E r \in Requests : Upload(r)
    \/ \E r \in Requests : UploadNothing(r)
    \/ \E r \in Requests : NoFileUploaded(r)
    \/ \E r \in Requests : StartConversion(r)
    \/ \E r \in Requests : UnsupportedFormat(r)
    \/ \E r \in Requests : ConverterSucceeds(r)
    \/ \E r \in Requests : ConverterFails(r)
    \/ \E r \in Requests : SendFile(r)
    \/ \E r \in Requests : CatchUnlink(r)
    \/ \E r \in Requests : Respond500(r)
    \/ \E r \in Requests : ClientDisconnect(r)

Spec == Init /\ [][Next]_vars

\* The steps of one request's handler.  The event loop runs every
\* continuation that is ready, and the awaited converter and unlink settle.
HandlerSteps(r) ==
    \/ NoFileUploaded(r)
    \/ StartConversion(r)
    \/ UnsupportedFormat(r)
    \/ ConverterSucceeds(r)
    \/ ConverterFails(r)
    \/ SendFile(r)
    \/ CatchUnlink(r)
    \/ Respond500(r)

FairSpec == Spec /\ \A r \in Requests : WF_vars(HandlerSteps(r))

\* ---- vocabulary of the properties ----------------------------------------
Arrived(r) == pc[r] # "idle"
Done(r) == pc[r] = "done"
InFlight(r) == Arrived(r) /\ ~Done(r)
HasFile(r) == file[r] # NoFile

\* The file the request uploaded is still in the uploads directory.
InputOnDisk(r) ==
    /\ HasFile(r)
    /\ Exists(disk, file[r].path)
    /\ disk[file[r].path].owner = r
    /\ disk[file[r].path].encoding = "upload"

\* A file the request's converter wrote is in the uploads directory.
OutputOnDisk(r) ==
    /\ outputFileName[r] # ""
    /\ Exists(disk, outputFileName[r])
    /\ disk[outputFileName[r]].owner = r
    /\ disk[outputFileName[r]].encoding # "upload"

\* The eleven formats of the format registry.
RegistryFormats ==
    {"mp3", "wav", "ogg", "m4a", "pdf", "docx", "txt", "jpg", "jpeg", "png", "webp"}

\* ---- C1 -------------------------------------------------------------------
\* C1: once a request has completed, whatever its outcome, the uploads
\* directory holds neither the input file nor the output file of the request.
C1_NoFilesAfterCompletion ==
    \A r \in Requests : Done(r) => ~InputOnDisk(r) /\ ~OutputOnDisk(r)

\* ---- C2 -------------------------------------------------------------------
\* C2: a request with a file whose targetFormat is not a registry format
\* invokes no converter and creates no output file; it ends with status 500
\* and the message "Conversion to <targetFormat> is not supported", and its
\* input file is removed.
C2_UnsupportedFormatRejected ==
    \A r \in Requests :
        (HasFile(r) /\ targetFormat[r] \notin RegistryFormats) =>
            /\ calls[r] = <<>>
            /\ ~OutputOnDisk(r)
            /\ \A p \in DOMAIN disk :
                   disk[p].owner = r => disk[p].encoding = "upload"
            /\ status[r] \in {0, 500}
            /\ pc[r] \in {"handler", "catch", "respond500", "done"}
            /\ Done(r) =>
                   /\ status[r] = 500
                   /\ body[r].error =
                          "Conversion to " \o targetFormat[r] \o " is not supported"
                   /\ ~InputOnDisk(r)
                   /\ Len(unlinks[r]) = 1

C2_Witness ==
    \E r \in Requests :
        /\ HasFile(r) /\ targetFormat[r] = "xyz" /\ Done(r)
        /\ status[r] = 500
        /\ body[r].error = "Conversion to xyz is not supported"
        /\ unlinks[r] = <<[path |-> file[r].path, ok |-> TRUE]>>

C4_SuccessIs200 ==
    \A r \in Requests :
        (outcome[r] = "resolved" /\ Done(r)) =>
            /\ status[r] = 200
            /\ headers[r].ContentType = contentTypes[targetFormat[r]]
            /\ headers[r].ContentDisposition =
                   "attachment; filename=" \o outputFileName[r]

\* ---- C5 -------------------------------------------------------------------
\* C5: two requests in flight together that upload files of the same
\* original name, the same clock tick included, get distinct input paths.
C5_DistinctInputPaths ==
    \A r1, r2 \in Requests :
        (/\ r1 # r2
         /\ InFlight(r1) /\ InFlight(r2)
         /\ HasFile(r1) /\ HasFile(r2)
         /\ file[r1].originalname = file[r2].originalname)
            => file[r1].path # file[r2].path

\* ---- C6 -------------------------------------------------------------------
\* C6: when the converter call of a request fails, the converter is not
\* invoked again, the response is 500 with {error, details} where error is
\* the failure's message, and the input file is removed before the 500 is
\* sent.
C6_ConverterFailureIsTerminal ==
    \A r \in Requests :
        outcome[r] = "rejected" =>
            /\ Len(calls[r]) = 1
            /\ pc[r] \in {"catch", "respond500", "done"}
            /\ status[r] \in {0, 500}
            /\ status[r] = 500 =>
                   /\ body[r] = [error |-> error[r].message,
                                 details |-> "Error: " \o error[r].message]
                   /\ error[r].message # ""
                   /\ Len(unlinks[r]) = 1
                   /\ unlinks[r][1].path = file[r].path
                   /\ ~InputOnDisk(r)
            /\ Done(r) => status[r] = 500

C6_Witness ==
    \E r \in Requests :
        /\ outcome[r] = "rejected" /\ Done(r)
        /\ status[r] = 500
        /\ body[r] = [error |-> "ffmpeg exited with code 1",
                      details |-> "Error: ffmpeg exited with code 1"]
        /\ Len(calls[r]) = 1
        /\ unlinks[r] = <<[path |-> file[r].path, ok |-> TRUE]>>

\* ---- C7 -------------------------------------------------------------------
\* C7: when the client disconnects while its converted file is due to be
\* streamed, the input and the output file of the request are still removed.
C7_DisconnectStillCleansUp ==
    \A r \in Requests :
        (~connected[r] /\ Done(r)) => ~InputOnDisk(r) /\ ~OutputOnDisk(r)

\* ---- C8 -------------------------------------------------------------------
\* What a request answers is decided by what it carried and by how its
\* converter settled.
SameRequestAndOutcome(r1, r2) ==
    /\ HasFile(r1) = HasFile(r2)
    /\ targetFormat[r1] = targetFormat[r2]
    /\ outcome[r1] = outcome[r2]

UnlinkFailed(r) == \E i \in DOMAIN unlinks[r] : ~unlinks[r][i].ok

\* C8: a failed removal is never surfaced: two completed requests that
\* carried the same and whose converter settled the same are answered with
\* the same status and body whether their unlink succeeded or failed, and a
\* request whose unlink failed goes on to its response.
C8_CleanupFailureNotSurfaced ==
    /\ \A r1, r2 \in Requests :
           (Done(r1) /\ Done(r2) /\ SameRequestAndOutcome(r1, r2)) =>
               status[r1] = status[r2] /\ body[r1] = body[r2]
    /\ \A r \in Requests :
           UnlinkFailed(r) =>
               /\ pc[r] \in {"respond500", "done"}
               /\ Done(r) => status[r] = 500 /\ body[r].error = error[r].message

C8_Witness ==
    \E r1, r2 \in Requests :
        /\ Done(r1) /\ Done(r2) /\ SameRequestAndOutcome(r1, r2)
        /\ HasFile(r1)
        /\ ~UnlinkFailed(r1) /\ unlinks[r1] # <<>>
        /\ UnlinkFailed(r2)
        /\ status[r2] = 500 /\ body[r1] = body[r2]

\* ---- C9 -------------------------------------------------------------------
FormatLists ==
    <<supportedAudioFormats, supportedDocFormats, supportedImageFormats>>

\* C9: every format of the three lists is in exactly one list and has one
\* entry of contentTypes, contentTypes has no other key; jpg and jpeg have
\* the same MIME type and take the same converter branch.
C9_FormatTablesPartition ==
    /\ \A f \in SupportedFormats :
           Cardinality({k \in DOMAIN FormatLists : Includes(FormatLists[k], f)}) = 1
    /\ \A k \in DOMAIN FormatLists :
           Cardinality(Elements(FormatLists[k])) = Len(FormatLists[k])
    /\ DOMAIN contentTypes = SupportedFormats
    /\ contentTypes["jpg"] = contentTypes["jpeg"]
    /\ Converter("jpg") = Converter("jpeg")
    /\ ImageEncoder("jpg") = ImageEncoder("jpeg")
    /\ \A r \in Requests :
           (targetFormat[r] \in {"jpg", "jpeg"} /\ calls[r] # <<>>) =>
               /\ calls[r][1].fn = "convertImage"
               /\ OutputOnDisk(r) /\ outcome[r] = "resolved" =>
                      disk[outputFileName[r]].encoding = "sharp/jpeg"
               /\ headers[r].ContentDisposition # "" =>
                      headers[r].ContentType \in
                          {"image/jpeg", "application/json; charset=utf-8"}

C9_Witness ==
    \E r1, r2 \in Requests :
        /\ targetFormat[r1] = "jpg" /\ targetFormat[r2] = "jpeg"
        /\ outcome[r1] = "resolved" /\ outcome[r2] = "resolved"
        /\ OutputOnDisk(r1) /\ OutputOnDisk(r2)
        /\ disk[outputFileName[r1]].encoding = disk[outputFileName[r2]].encoding
        /\ headers[r1].ContentType = "image/jpeg"
        /\ headers[r2].ContentType = "image/jpeg"

\* ---- C10 ------------------------------------------------------------------
\* C10: the output paths of two requests in flight together differ, the same
\* targetFormat and clock tick included, and no output path equals the
\* input path of a request in flight.
C10_FreshOutputPath ==
    \A r1, r2 \in Requests :
        (/\ InFlight(r1) /\ InFlight(r2)
         /\ outputFileName[r1] # "")
            => /\ (r1 # r2 => outputFileName[r1] # outputFileName[r2])
               /\ (HasFile(r2) => outputFileName[r1] # file[r2].path)

\* ---- C11 ------------------------------------------------------------------
UnlinkAttempted(r, path) ==
    \E i \in DOMAIN unlinks[r] : unlinks[r][i].path = path

\* C11: cleanup once the converted file is due removes every path on its
\* own: when the removal of the input file fails, the removal of the output
\* file is still attempted and the output file does not stay on disk.
C11_OutputRemovedWhenInputRemovalFails ==
    \A r \in Requests :
        (Done(r) /\ outcome[r] = "resolved" /\ UnlinkFailed(r)) =>
            /\ UnlinkAttempted(r, outputFileName[r])
            /\ ~OutputOnDisk(r)

\* ---- C12 ------------------------------------------------------------------
\* C12: a request that fails once its output file may exist (the converter
\* rejects after a partial write, or the output cannot be opened for
\* reading) has its output file removed before it completes.
C12_OutputRemovedOnFailure ==
    \A r \in Requests :
        (Done(r) /\ status[r] = 500 /\ calls[r] # <<>>) => ~OutputOnDisk(r)

\* ---- C13 ------------------------------------------------------------------
\* The converter of each category of the registry.
CategoryConverter(f) ==
    IF f \in {"mp3", "wav", "ogg", "m4a"} THEN "convertAudio"
    ELSE IF f \in {"pdf", "docx", "txt"} THEN "convertDocument"
    ELSE "convertImage"

\* C13: a request with a file and a supported targetFormat f invokes one
\* converter, once, the one of f's category, with its own input path, its
\* output path and f; no converter is called before the format is tested.
C13_OneConverterOfTheCategory ==
    /\ \A f \in RegistryFormats : Converter(f) = CategoryConverter(f)
    /\ \A r \in Requests :
           (HasFile(r) /\ targetFormat[r] \in RegistryFormats) =>
               IF pc[r] = "handler"
               THEN calls[r] = <<>>
               ELSE calls[r] =
                        <<[fn |-> CategoryConverter(targetFormat[r]),
                           inputPath |-> file[r].path,
                           outputPath |-> outputFileName[r],
                           format |-> targetFormat[r]]>>

C13_Witness ==
    \E r1, r2 \in Requests :
        /\ HasFile(r1) /\ targetFormat[r1] = "pdf" /\ Done(r1)
        /\ Len(calls[r1]) = 1 /\ calls[r1][1].fn = "convertDocument"
        /\ calls[r1][1].inputPath = file[r1].path
        /\ HasFile(r2) /\ targetFormat[r2] = "jpeg" /\ Done(r2)
        /\ Len(calls[r2]) = 1 /\ calls[r2][1].fn = "convertImage"
        /\ calls[r2][1].outputPath = outputFileName[r2]

\* ---- C14 ------------------------------------------------------------------
\* C14: when the converter has succeeded, no temp file of the request is
\* removed before the converted file has been delivered with the 200.
C14_RemovalAfterDelivery ==
    \A r \in Requests :
        outcome[r] = "resolved" =>
            \A i \in DOMAIN unlinks[r] : unlinks[r][i].ok => status[r] = 200

\* ---- C15 ------------------------------------------------------------------
\* The uploads and the converter outputs a request has on disk.
InputFiles(r) ==
    {p \in DOMAIN disk : disk[p].owner = r /\ disk[p].encoding = "upload"}

OutputFiles(r) ==
    {p \in DOMAIN disk : disk[p].owner = r /\ disk[p].encoding # "upload"}

\* C15: at every moment a request has at most one input file and at most
\* one output file on disk, the ones at req.file.path and at its output
\* path; the handler never creates a second one.
C15_AtMostOneInputAndOutput ==
    \A r \in Requests :
        /\ Cardinality(InputFiles(r)) <= 1
        /\ Cardinality(OutputFiles(r)) <= 1
        /\ InputFiles(r) \subseteq {file[r].path}
        /\ OutputFiles(r) \subseteq {outputFileName[r]}
        /\ Len(calls[r]) <= 1

C15_Witness ==
    \E r \in Requests :
        /\ InputOnDisk(r) /\ OutputOnDisk(r)
        /\ file[r].path # outputFileName[r]
        /\ Cardinality(InputFiles(r)) = 1
        /\ Cardinality(OutputFiles(r)) = 1

\* ---- C16 ------------------------------------------------------------------
\* C16: every request that reaches the handler receives exactly one
\* response: once a status and body are sent no other status or body is
\* sent for the request, and a request in the handler is eventually answered
\* with the 200, the 400 or the 500.
C16_ExactlyOneResponse ==
    /\ [][\A r \in Requests :
            status[r] # 0 => status'[r] = status[r] /\ body'[r] = body[r]]_vars
    /\ \A r \in Requests :
           (pc[r] = "handler") ~> (Done(r) /\ status[r] \in {200, 400, 500})

C16_Witness ==
    \E r1, r2 \in Requests :
        /\ Done(r1) /\ status[r1] = 400 /\ body[r1] = [error |-> "No file uploaded"]
        /\ Done(r2) /\ status[r2] = 500 /\ outcome[r2] = "resolved"

====
